---- MODULE Spec2Model ----
(***************************************************************************)
(* A model of the persistence subsystem of gold-pass-bot:                  *)
(*   src/src/storage.rs     Season, Storage, ClanStorage, players_summary  *)
(*   src/src/tags.rs        ClanTag / PlayerTag and their TagVisitor       *)
(*   src/src/storage/s3.rs  S3Storage, a StorageBackend over one object    *)
(* and of the Replicated backend (mod replicated, storage.rs:18-19), whose *)
(* file is not among the sources and is modelled from spec.md section 4.3. *)
(*                                                                         *)
(* Strings are sequences of one-character strings.  usize is modelled with *)
(* UsizeBits bits; an arithmetic overflow panics in a build with overflow  *)
(* checks ("debug") and wraps modulo 2^UsizeBits otherwise ("release").    *)
(***************************************************************************)
EXTENDS Integers, Sequences, FiniteSets, TLC

VARIABLES
    build,       \* "debug" | "release": whether usize overflow panics or wraps
    \* ---- Season::previous
    seasonIn,    \* the Season previous() is called on
    seasonOut,   \* its outcome, NotCalled before the call
    \* ---- Season text encoding
    rawIn,       \* the string handed to Season::deserialize
    parseOut,    \* its outcome, NotCalled before the call
    fmtOut,      \* Season::serialize of the parsed Season, NotCalled before
    \* ---- Storage
    clans,       \* Storage.clans: ClanTag -> (Season -> ClanStorage)
    lastCall,    \* the last operation called on the Storage, with its arguments
    ret,         \* what that operation returned: None or Some(bundle)
    ref,         \* the bundle the last successful get_mut handed out: its key,
                 \* and its value as last seen or written through the reference
    registered,  \* history: the tags register_clan was called with (for a
                 \* loaded Storage, with the tags its document holds)
    blob,        \* content of the StorageBackend save and load go to: None or Some
    ioOut,       \* outcome of the last save or load
    saves,       \* number of save calls so far
    \* ---- ClanStorage::players_summary
    bundle,      \* the ClanStorage players_summary is called on
    summaryOut,  \* what the returned iterator yielded, NotCalled before
    \* ---- S3Storage
    object,      \* the object "storage.json" of the bucket: None or Some(content)
    s3Pc,        \* where the one running future is: "idle", "w_get", "w_put", "l_get"
    s3Content,   \* the content the running or last write was given
    s3Prev,      \* the write's fetch of the previous content: "none", "same", "differs", "err"
    s3Upload,    \* the write's upload: "none", "skipped", "ok", "err"
    s3WriteRes,  \* what the last write returned: "none", "ok", "err"
    s3LoadRes,   \* what the last load since then returned, NotCalled before
    \* ---- Replicated
    stores,      \* content of each underlying backend: None or Some(content)
    replPc,      \* "idle", "writing", "loading"
    wContent,    \* the content of the running or last write
    wOutcome,    \* per backend: "pending", "ok", "err" of that write
    wResult,     \* what the write returned: "none" while it runs, "ok", "err"
    lNext,       \* the backend the running load tries next
    lOutcome,    \* per backend: "untried", "ok", "err" of the running or last load
    lResult      \* what the last load since the last write returned, NotCalled
                 \* before it returns

seasonVars  == <<seasonIn, seasonOut>>
textVars    == <<rawIn, parseOut, fmtOut>>
storageVars == <<clans, lastCall, ret, ref, registered>>
persistVars == <<blob, ioOut, saves>>
summaryVars == <<bundle, summaryOut>>
s3Vars   == <<object, s3Pc, s3Content, s3Prev, s3Upload, s3WriteRes, s3LoadRes>>
replVars == <<stores, replPc, wContent, wOutcome, wResult, lNext, lOutcome, lResult>>
vars == <<build, seasonVars, textVars, storageVars, persistVars, summaryVars,
          s3Vars, replVars>>

----------------------------------------------------------------------------
(* Bounds of the model *)

UsizeBits == 16     \* width of usize in the model (64 on the usual targets)
MaxYear   == 3      \* Season::previous is tried on years 0..MaxYear
MaxMonth  == 13     \* ... and months 0..MaxMonth
MaxStrLen == 7      \* longest string handed to Season::deserialize
MaxEntries == 2     \* most (tag, season) entries a Storage holds
MaxSaves  == 1      \* most calls of Storage::save in a run
NumContents == 3    \* distinct byte contents handed to a backend
NumBackends == 3    \* backends under a Replicated

UsizeMod == 2 ^ UsizeBits
Builds   == {"debug", "release"}

NotCalled == [called |-> FALSE]

\* Option<T>
None    == <<>>
Some(v) == <<v>>

\* HashMap / BTreeMap as functions
EmptyMap == [k \in {} |-> k]
Insert(m, k, v) == [x \in (DOMAIN m) \cup {k} |-> IF x = k THEN v ELSE m[x]]

----------------------------------------------------------------------------
(* usize arithmetic *)

Value(v) == [panic |-> FALSE, val |-> v]
Panic    == [panic |-> TRUE,  val |-> 0]

\* a - b on usize: "attempt to subtract with overflow" or wrap-around
UsizeSub(a, b, bld) ==
    IF a >= b THEN Value(a - b)
    ELSE IF bld = "debug" THEN Panic
    ELSE Value(a - b + UsizeMod)

\* a + b on usize: "attempt to add with overflow" or wrap-around
UsizeAdd(a, b, bld) ==
    IF a + b < UsizeMod THEN Value(a + b)
    ELSE IF bld = "debug" THEN Panic
    ELSE Value(a + b - UsizeMod)

----------------------------------------------------------------------------
(* Season  (storage.rs:50-116) *)

Season(y, m) == [year |-> y, month |-> m]

\* Season::previous (storage.rs:107-115)
previous(self, bld) ==
    LET m1 == UsizeSub(self.month, 1, bld) IN
    IF m1.panic THEN [called |-> TRUE, panic |-> TRUE, season |-> self]
    ELSE IF m1.val < 1
         THEN LET y1 == UsizeSub(self.year, 1, bld) IN
              IF y1.panic THEN [called |-> TRUE, panic |-> TRUE, season |-> self]
              ELSE [called |-> TRUE, panic |-> FALSE, season |-> Season(y1.val, 12)]
         ELSE [called |-> TRUE, panic |-> FALSE, season |-> Season(self.year, m1.val)]

----------------------------------------------------------------------------
(* Strings and the text encoding of a Season (storage.rs:56-79) *)

Digits == <<"0", "1", "2", "3", "4", "5", "6", "7", "8", "9">>
IsDigit(c) == \E i \in 1..10 : Digits[i] = c
DigitVal(c) == (CHOOSE i \in 1..10 : Digits[i] = c) - 1

\* the characters input strings are drawn from
Chars == {"0", "1", "3", "-", "+"}

StringsUpTo(n) == UNION {[1..k -> Chars] : k \in 0..n}

\* str::split_once('-'): the parts before and after the first '-'
split_once(s) ==
    IF \E i \in 1..Len(s) : s[i] = "-"
    THEN LET i == CHOOSE j \in 1..Len(s) :
                      s[j] = "-" /\ \A k \in 1..(j - 1) : s[k] # "-"
         IN [some |-> TRUE, left |-> SubSeq(s, 1, i - 1),
                            right |-> SubSeq(s, i + 1, Len(s))]
    ELSE [some |-> FALSE, left |-> <<>>, right |-> <<>>]

\* the checked accumulation of usize::from_str over the digits ds;
\* -1 stands for PosOverflow / InvalidDigit
RECURSIVE AccDigits(_, _)
AccDigits(ds, acc) ==
    IF ds = <<>> THEN acc
    ELSE IF ~IsDigit(Head(ds)) THEN -1
    ELSE LET v == acc * 10 + DigitVal(Head(ds)) IN
         IF v >= UsizeMod THEN -1 ELSE AccDigits(Tail(ds), v)

\* str::parse::<usize>(): an optional '+', then one or more decimal digits
ParseUsize(s) ==
    LET ds == IF s # <<>> /\ Head(s) = "+" THEN Tail(s) ELSE s
        v  == AccDigits(ds, 0)
    IN IF ds = <<>> \/ v < 0 THEN [ok |-> FALSE, val |-> 0]
       ELSE [ok |-> TRUE, val |-> v]

\* Season::deserialize (storage.rs:56-70)
Season_deserialize(raw) ==
    LET sp == split_once(raw) IN
    IF ~sp.some THEN [called |-> TRUE, ok |-> FALSE, season |-> Season(0, 0)]
    ELSE LET y == ParseUsize(sp.left)
             m == ParseUsize(sp.right)
         IN IF y.ok /\ m.ok
            THEN [called |-> TRUE, ok |-> TRUE, season |-> Season(y.val, m.val)]
            ELSE [called |-> TRUE, ok |-> FALSE, season |-> Season(0, 0)]

\* the decimal digits of n, most significant first
RECURSIVE Decimal(_)
Decimal(n) == IF n < 10 THEN <<Digits[n + 1]>>
              ELSE Append(Decimal(n \div 10), Digits[(n % 10) + 1])

\* "{:0w}": left-padded with '0' to at least w characters
RECURSIVE ZeroPad(_, _)
ZeroPad(s, w) == IF Len(s) >= w THEN s ELSE ZeroPad(<<"0">> \o s, w)

\* Season::serialize (storage.rs:71-79): format!("{:04}-{:02}", year, month)
Season_serialize(self) ==
    ZeroPad(Decimal(self.year), 4) \o <<"-">> \o ZeroPad(Decimal(self.month), 2)


----------------------------------------------------------------------------
(* Tags  (tags.rs) *)

\* str::starts_with("#")
StartsWithSigil(v) == Len(v) >= 1 /\ v[1] = "#"

\* TagVisitor::visit_str / visit_string (tags.rs:15-41): the only validation
visit_str(v) == IF StartsWithSigil(v) THEN [ok |-> TRUE, val |-> v]
                ELSE [ok |-> FALSE, val |-> <<>>]

\* ClanTag(pub String), PlayerTag(pub String) (tags.rs:46, 90): the tuple
\* constructor is public and wraps any String
ClanTag(str)   == str
PlayerTag(str) == str

\* the strings callers build tags from
ClanTagInputs   == {<<"#", "A">>, <<"A">>}
PlayerTagInputs == {<<"#", "P">>, <<"P">>}
SeasonInputs    == {Season(2024, 1), Season(2023, 12)}

----------------------------------------------------------------------------
(* Storage  (storage.rs:45-48, 118-128, 175-220) *)

\* ClanStorage::default() (storage.rs:119-128)
ClanStorage_default ==
    [cwl |-> [wars |-> <<>>], wars |-> EmptyMap, games |-> EmptyMap,
     raid_weekend |-> EmptyMap, player_names |-> EmptyMap]

\* Storage::empty (storage.rs:176-180)
Storage_empty == EmptyMap

\* register_clan without its early return: an existing season-map is replaced
register_clan_reset(cl, tag) == Insert(cl, tag, EmptyMap)

\* Storage::register_clan (storage.rs:182-188)
register_clan(cl, tag) ==
    IF tag \in DOMAIN cl THEN cl ELSE Insert(cl, tag, EmptyMap)

\* get_mut that creates the season-map of an unregistered tag on the way
get_mut_autoregister(cl, tag, season) ==
    LET seasons == IF tag \in DOMAIN cl /\ season \in DOMAIN cl[tag] THEN cl[tag]
                   ELSE IF tag \in DOMAIN cl
                        THEN Insert(cl[tag], season, ClanStorage_default)
                        ELSE Insert(EmptyMap, season, ClanStorage_default)
    IN [clans |-> Insert(cl, tag, seasons), some |-> TRUE]

\* Storage::get_mut (storage.rs:190-198): the map afterwards, and whether a
\* reference (to the bundle at (tag, season)) is returned
get_mut(cl, tag, season) ==
    IF tag \notin DOMAIN cl THEN [clans |-> cl, some |-> FALSE]
    ELSE LET seasons == IF season \notin DOMAIN cl[tag]
                        THEN Insert(cl[tag], season, ClanStorage_default)
                        ELSE cl[tag]
         IN [clans |-> [cl EXCEPT ![tag] = seasons], some |-> TRUE]

\* Storage::get (storage.rs:200-202)
get(cl, tag, season) ==
    IF tag \in DOMAIN cl /\ season \in DOMAIN cl[tag]
    THEN Some(cl[tag][season]) ELSE None

NoCall == [op |-> "none", tag |-> <<>>, season |-> Season(0, 0)]
NoRef  == [live |-> FALSE]

\* the (tag, season) keys a Storage holds a bundle for
Entries(cl) == UNION {{<<t, s>> : s \in DOMAIN cl[t]} : t \in DOMAIN cl}

CallRegisterClan(tag) ==
    /\ clans' = register_clan(clans, tag)
    /\ lastCall' = [op |-> "register_clan", tag |-> tag, season |-> Season(0, 0)]
    /\ ret' = None
    /\ registered' = registered \cup {tag}
    /\ UNCHANGED ref

CallGetMut(tag, season) ==
    /\ IF tag \in DOMAIN clans /\ season \notin DOMAIN clans[tag]
       THEN Cardinality(Entries(clans)) < MaxEntries
       ELSE TRUE
    /\ LET r == get_mut(clans, tag, season) IN
       /\ clans' = r.clans
       /\ ret' = IF r.some THEN Some(r.clans[tag][season]) ELSE None
       /\ ref' = IF r.some
                 THEN [live |-> TRUE, tag |-> tag, season |-> season,
                       val |-> r.clans[tag][season]]
                 ELSE NoRef
    /\ lastCall' = [op |-> "get_mut", tag |-> tag, season |-> season]
    /\ UNCHANGED registered

\* a caller's write through the reference get_mut returned, while it is
\* still borrowed: bundle.player_names.insert(ptag, name)
MutateThroughRef(ptag) ==
    /\ lastCall.op \in {"get_mut", "mutate"}
    /\ ref # NoRef
    /\ LET new == [ref.val EXCEPT !.player_names = Insert(@, ptag, <<"n">>)] IN
       /\ clans' = [clans EXCEPT ![ref.tag][ref.season] = new]
       /\ ref' = [ref EXCEPT !.val = new]
       /\ ret' = Some(new)
    /\ lastCall' = [op |-> "mutate", tag |-> ref.tag, season |-> ref.season]
    /\ UNCHANGED registered

CallGet(tag, season) ==
    /\ ret' = get(clans, tag, season)
    /\ lastCall' = [op |-> "get", tag |-> tag, season |-> season]
    /\ UNCHANGED <<clans, ref, registered>>


----------------------------------------------------------------------------
(* Storage::save and Storage::load  (storage.rs:204-219) *)

\* every member key of a serialized bundle passes PlayerTag::deserialize
BundleTagsOk(b) ==
    /\ \A p \in DOMAIN b.player_names : visit_str(p).ok
    /\ \A p \in DOMAIN b.games : visit_str(p).ok
    /\ \A i \in DOMAIN b.cwl.wars : \A p \in DOMAIN b.cwl.wars[i].members : visit_str(p).ok
    /\ \A t \in DOMAIN b.wars : \A p \in DOMAIN b.wars[t].members : visit_str(p).ok
    /\ \A t \in DOMAIN b.raid_weekend :
           \A p \in DOMAIN b.raid_weekend[t].members : visit_str(p).ok

\* serde_json::to_vec(&self): tags are written as their raw string
\* (tags.rs:58-65, 102-109), Season keys through Season::serialize
Storage_serialize(cl) ==
    [t \in DOMAIN cl |->
        [k \in {Season_serialize(s) : s \in DOMAIN cl[t]} |->
            cl[t][CHOOSE s \in DOMAIN cl[t] : Season_serialize(s) = k]]]

\* serde_json::from_slice: every tag goes through TagVisitor, every Season
\* key through Season::deserialize; any failure fails the whole document
Storage_deserialize(doc) ==
    IF \A t \in DOMAIN doc :
          /\ visit_str(t).ok
          /\ \A k \in DOMAIN doc[t] :
                Season_deserialize(k).ok /\ BundleTagsOk(doc[t][k])
    THEN [ok |-> TRUE,
          clans |-> [t \in DOMAIN doc |->
              [s \in {Season_deserialize(k).season : k \in DOMAIN doc[t]} |->
                  doc[t][CHOOSE k \in DOMAIN doc[t] : Season_deserialize(k).season = s]]]]
    ELSE [ok |-> FALSE, clans |-> EmptyMap]

\* Storage::save (storage.rs:209-219); written tells whether store.write succeeded
CallSave(written) ==
    /\ saves < MaxSaves
    /\ saves' = saves + 1
    /\ blob' = IF written THEN Some(Storage_serialize(clans)) ELSE blob
    /\ ioOut' = IF written THEN "save_ok" ELSE "save_err"
    /\ lastCall' = [op |-> "save", tag |-> <<>>, season |-> Season(0, 0)]
    /\ ret' = None
    /\ UNCHANGED <<clans, ref, registered>>

\* Storage::load (storage.rs:204-207); loaded tells whether store.load succeeded.
\* The caller takes the loaded Storage in place of the one it held.
CallLoad(loaded) ==
    LET r == IF loaded /\ blob # None THEN Storage_deserialize(blob[1])
             ELSE [ok |-> FALSE, clans |-> EmptyMap]
    IN /\ clans' = IF r.ok THEN r.clans ELSE clans
       /\ ref' = IF r.ok THEN NoRef ELSE ref
       /\ ioOut' = IF r.ok THEN "load_ok" ELSE "load_err"
       /\ lastCall' = [op |-> "load", tag |-> <<>>, season |-> Season(0, 0)]
       /\ ret' = None
       /\ registered' = IF r.ok THEN DOMAIN r.clans ELSE registered
       /\ UNCHANGED <<blob, saves>>


----------------------------------------------------------------------------
(* ClanStorage::players_summary  (storage.rs:222-288) *)

\* Iterator::sum::<usize>() over the sequence xs
RECURSIVE SumUsize(_, _)
SumUsize(xs, bld) ==
    IF xs = <<>> THEN Value(0)
    ELSE LET rest == SumUsize(Tail(xs), bld) IN
         IF rest.panic THEN Panic ELSE UsizeAdd(Head(xs), rest.val, bld)

StarsOf(attacks) == [i \in DOMAIN attacks |-> attacks[i].stars]

\* members.get(&ptag).map(|m| m.attacks.iter().map(|a| a.stars).sum()).unwrap_or(0)
MemberStars(members, ptag, bld) ==
    IF ptag \in DOMAIN members
    THEN SumUsize(StarsOf(members[ptag].attacks), bld)
    ELSE Value(0)

\* the values of an ordered map, in key order
RECURSIVE MapValues(_)
MapValues(m) ==
    IF DOMAIN m = {} THEN <<>>
    ELSE LET k == CHOOSE x \in DOMAIN m : \A y \in DOMAIN m : x <= y IN
         <<m[k]>> \o MapValues([x \in (DOMAIN m) \ {k} |-> m[x]])

\* the sum of the per-war (per-raid) amounts rs, a panic in one of them first
RECURSIVE SumResults(_, _)
SumResults(rs, bld) ==
    IF rs = <<>> THEN Value(0)
    ELSE IF Head(rs).panic THEN Panic
    ELSE LET rest == SumResults(Tail(rs), bld) IN
         IF rest.panic THEN Panic ELSE UsizeAdd(Head(rs).val, rest.val, bld)

\* storage.rs:271-275: end_score - start_score.unwrap_or(end_score)
games_score(games, ptag, bld) ==
    IF ptag \in DOMAIN games
    THEN LET g == games[ptag]
             start == IF g.start_score = None THEN g.end_score ELSE g.start_score[1]
         IN UsizeSub(g.end_score, start, bld)
    ELSE Value(0)

\* the item the iterator computes for ptag (storage.rs:236-286)
PlayerItem(self, ptag, bld) ==
    LET WarStars(war) == MemberStars(war.members, ptag, bld)
        RaidLoot(raid) == IF ptag \in DOMAIN raid.members
                          THEN Value(raid.members[ptag].looted) ELSE Value(0)
        Each(xs, F(_)) == [i \in DOMAIN xs |-> F(xs[i])]
        cwl_stars == SumResults(Each(self.cwl.wars, WarStars), bld)
        war_stars == SumResults(Each(MapValues(self.wars), WarStars), bld)
        raid_loot == SumResults(Each(MapValues(self.raid_weekend), RaidLoot), bld)
        score     == games_score(self.games, ptag, bld)
    IN [panic |-> cwl_stars.panic \/ war_stars.panic \/ raid_loot.panic \/ score.panic,
        summary |-> [cwl_stars |-> cwl_stars.val, war_stars |-> war_stars.val,
                     raid_loot |-> raid_loot.val, games_score |-> score.val]]

\* the orders a HashSet of the tags in S may be iterated in
Orders(S) == {o \in [1..Cardinality(S) -> S] : \A i, j \in DOMAIN o : o[i] = o[j] => i = j}

\* ClanStorage::players_summary, consumed to its end: the member universe is
\* the key set of player_names (storage.rs:234), visited in the order `order`;
\* the items yielded before the first panic, and whether one happened
players_summary(self, order, bld) ==
    LET bad == {i \in DOMAIN order : PlayerItem(self, order[i], bld).panic}
        n   == IF bad = {} THEN Len(order)
               ELSE (CHOOSE i \in bad : \A j \in bad : i <= j) - 1
    IN [called |-> TRUE,
        panic |-> bad # {},
        items |-> [p \in {order[i] : i \in 1..n} |-> PlayerItem(self, p, bld).summary]]

\* the ClanStorage values players_summary is tried on
SummaryPlayers == {<<"#", "P">>, <<"#", "Q">>}
ScoreInputs    == {50, 80, 120}
Attack(stars)  == [destruction |-> 100, stars |-> stars, duration |-> 60]
GamesInputs ==
    {[start_score |-> st, end_score |-> en] :
        st \in {None} \cup {Some(x) : x \in ScoreInputs}, en \in ScoreInputs}
PartialMaps(K, V) == UNION {[D -> V] : D \in SUBSET K}

BundleInputs ==
    {[cwl |-> [wars |-> IF cm = {} THEN <<>>
                        ELSE <<[members |-> [p \in cm |->
                                    [attacks |-> <<Attack(3), Attack(3)>>]]]>>],
      wars |-> IF wm = {} THEN EmptyMap
               ELSE [t \in {1} |-> [start_time |-> 1, members |-> [p \in wm |->
                                    [attacks |-> <<Attack(3), Attack(1)>>]]]],
      games |-> g,
      raid_weekend |-> IF rm = {} THEN EmptyMap
               ELSE [t \in {2} |-> [start_time |-> 2, members |-> [p \in rm |->
                                    [looted |-> 1000]]]],
      player_names |-> [p \in nm |-> <<"n">>]] :
        cm \in SUBSET SummaryPlayers, wm \in SUBSET SummaryPlayers,
        rm \in SUBSET SummaryPlayers, nm \in SUBSET SummaryPlayers,
        g \in PartialMaps(SummaryPlayers, GamesInputs)}


----------------------------------------------------------------------------
(* S3Storage  (storage/s3.rs) *)

Contents == 1..NumContents
Backends == 1..NumBackends

\* s3.rs:35 with the condition turned into "a previous object was fetched"
SkipUploadAlways(content, previous_content) == TRUE

\* s3.rs:35: content == previous_content
SkipUpload(content, previous_content) == content = previous_content

\* S3Storage::write is called (s3.rs:19-28): the future is created and run
S3WriteCall(c) ==
    /\ s3Pc = "idle"
    /\ s3Pc' = "w_get"
    /\ s3Content' = c
    /\ s3Prev' = "none" /\ s3Upload' = "none" /\ s3WriteRes' = "none"
    /\ s3LoadRes' = NotCalled
    /\ UNCHANGED object

\* s3.rs:32-39: bucket.get_object(filename).await; fetched tells whether the
\* request went through, and it fails as well when there is no object
S3WriteGetObject(fetched) ==
    /\ s3Pc = "w_get"
    /\ IF fetched /\ object # None
       THEN IF SkipUpload(s3Content, object[1])
            THEN /\ s3Prev' = "same" /\ s3Upload' = "skipped"
                 /\ s3WriteRes' = "ok" /\ s3Pc' = "idle"
            ELSE /\ s3Prev' = "differs" /\ s3Pc' = "w_put"
                 /\ UNCHANGED <<s3Upload, s3WriteRes>>
       ELSE /\ s3Prev' = "err" /\ s3Pc' = "w_put"
            /\ UNCHANGED <<s3Upload, s3WriteRes>>
    /\ UNCHANGED <<object, s3Content, s3LoadRes>>

\* s3.rs:41-52: bucket.put_object_with_content_type(..).await; a request that
\* is reported as failed may or may not have replaced the object
S3WritePutObject(ok, applied) ==
    /\ s3Pc = "w_put"
    /\ ok => applied
    /\ object' = IF applied THEN Some(s3Content) ELSE object
    /\ s3Upload' = IF ok THEN "ok" ELSE "err"
    /\ s3WriteRes' = IF ok THEN "ok" ELSE "err"
    /\ s3Pc' = "idle"
    /\ UNCHANGED <<s3Content, s3Prev, s3LoadRes>>

\* S3Storage::load is called (s3.rs:56-62)
S3LoadCall ==
    /\ s3Pc = "idle"
    /\ s3Pc' = "l_get"
    /\ s3LoadRes' = NotCalled
    /\ UNCHANGED <<object, s3Content, s3Prev, s3Upload, s3WriteRes>>

\* s3.rs:63-68: bucket.get_object(filename).await
S3LoadGetObject(fetched) ==
    /\ s3Pc = "l_get"
    /\ s3LoadRes' = IF fetched /\ object # None
                    THEN [called |-> TRUE, ok |-> TRUE, content |-> object[1]]
                    ELSE [called |-> TRUE, ok |-> FALSE, content |-> 0]
    /\ s3Pc' = "idle"
    /\ UNCHANGED <<object, s3Content, s3Prev, s3Upload, s3WriteRes>>

----------------------------------------------------------------------------
(* Replicated  (mod replicated, storage.rs:18-19; after spec.md 4.1, 4.3) *)

\* write of an underlying backend: replaces the content when it succeeds
BackendWrite(store, c, ok) == IF ok THEN Some(c) ELSE store

\* load of an underlying backend: fails when nothing was written
BackendLoad(store, ok) ==
    IF ok /\ store # None THEN [ok |-> TRUE, content |-> store[1]]
    ELSE [ok |-> FALSE, content |-> 0]

\* a write policy under which every backend has to succeed
WriteResultAll(outcomes) ==
    IF \A i \in DOMAIN outcomes : outcomes[i] = "ok" THEN "ok" ELSE "err"

\* the write policy: success when at least one backend succeeded
WriteResult(outcomes) ==
    IF \E i \in DOMAIN outcomes : outcomes[i] = "ok" THEN "ok" ELSE "err"

\* a load that goes on to the next backend after a success as well
LoadGoesOnAlways(r) == TRUE

\* the load policy: go on to the next backend only after a failure
LoadGoesOn(r) == ~r.ok

ReplWriteCall(c) ==
    /\ replPc = "idle"
    /\ replPc' = "writing"
    /\ wContent' = c
    /\ wOutcome' = [i \in Backends |-> "pending"]
    /\ wResult' = "none"
    /\ lOutcome' = [i \in Backends |-> "untried"]
    /\ lResult' = NotCalled
    /\ UNCHANGED <<stores, lNext>>

\* one of the concurrent underlying writes resolves
ReplWriteResolve(i, ok) ==
    /\ replPc = "writing"
    /\ wOutcome[i] = "pending"
    /\ stores' = [stores EXCEPT ![i] = BackendWrite(@, wContent, ok)]
    /\ wOutcome' = [wOutcome EXCEPT ![i] = IF ok THEN "ok" ELSE "err"]
    /\ UNCHANGED <<replPc, wContent, wResult, lNext, lOutcome, lResult>>

\* the overall write completes once every underlying write has resolved
ReplWriteFinish ==
    /\ replPc = "writing"
    /\ \A i \in Backends : wOutcome[i] # "pending"
    /\ wResult' = WriteResult(wOutcome)
    /\ replPc' = "idle"
    /\ UNCHANGED <<stores, wContent, wOutcome, lNext, lOutcome, lResult>>

ReplLoadCall ==
    /\ replPc = "idle"
    /\ replPc' = "loading"
    /\ lNext' = 1
    /\ lOutcome' = [i \in Backends |-> "untried"]
    /\ lResult' = NotCalled
    /\ UNCHANGED <<stores, wContent, wOutcome, wResult>>

\* the load tries backend lNext; it returns the first content it gets
ReplLoadAttempt(ok) ==
    /\ replPc = "loading"
    /\ lNext \in Backends
    /\ LET r == BackendLoad(stores[lNext], ok) IN
       /\ lOutcome' = [lOutcome EXCEPT ![lNext] = IF r.ok THEN "ok" ELSE "err"]
       /\ lResult' = IF r.ok /\ lResult = NotCalled
                     THEN [called |-> TRUE, ok |-> TRUE, content |-> r.content]
                     ELSE lResult
       /\ IF LoadGoesOn(r)
          THEN lNext' = lNext + 1 /\ replPc' = "loading"
          ELSE lNext' = lNext /\ replPc' = "idle"
    /\ UNCHANGED <<stores, wContent, wOutcome, wResult>>

\* every backend was tried: the load returns
ReplLoadFinish ==
    /\ replPc = "loading"
    /\ lNext \notin Backends
    /\ lResult' = IF lResult = NotCalled
                  THEN [called |-> TRUE, ok |-> FALSE, content |-> 0]
                  ELSE lResult
    /\ replPc' = "idle"
    /\ UNCHANGED <<stores, wContent, wOutcome, wResult, lNext, lOutcome>>

----------------------------------------------------------------------------
(* Specification of Season::previous *)

StorageIdle == /\ clans = EmptyMap /\ lastCall = NoCall /\ ret = None
               /\ ref = NoRef /\ registered = {}
S3Idle == /\ object = None /\ s3Pc = "idle" /\ s3Content = 1 /\ s3Prev = "none"
          /\ s3Upload = "none" /\ s3WriteRes = "none" /\ s3LoadRes = NotCalled
ReplIdle == /\ stores = [i \in Backends |-> None] /\ replPc = "idle" /\ wContent = 1
            /\ wOutcome = [i \in Backends |-> "pending"] /\ wResult = "none"
            /\ lNext = 1 /\ lOutcome = [i \in Backends |-> "untried"]
            /\ lResult = NotCalled
OthersIdle == S3Idle /\ ReplIdle
SummaryIdle == bundle = ClanStorage_default /\ summaryOut = NotCalled
PersistIdle == blob = None /\ ioOut = "none" /\ saves = 0
SeasonIdle == seasonIn = Season(0, 0) /\ seasonOut = NotCalled
TextIdle   == rawIn = <<>> /\ parseOut = NotCalled /\ fmtOut = NotCalled

InitSeasonPrev ==
    /\ build \in Builds
    /\ seasonIn \in {Season(y, m) : y \in 0..MaxYear, m \in 0..MaxMonth}
    /\ seasonOut = NotCalled
    /\ TextIdle /\ StorageIdle /\ PersistIdle /\ SummaryIdle /\ OthersIdle

CallPrevious ==
    /\ seasonOut = NotCalled
    /\ seasonOut' = previous(seasonIn, build)
    /\ UNCHANGED <<build, seasonIn, textVars, storageVars, persistVars, summaryVars, s3Vars, replVars>>

NextSeasonPrev == CallPrevious

SpecSeasonPrev == InitSeasonPrev /\ [][NextSeasonPrev]_vars

(* C7: for a Season with month in 1..12, previous() returns                *)
(* {year, month - 1} when month > 1 and {year - 1, 12} when month = 1, a   *)
(* Season with month in 1..12 again.                                       *)
PreviousAsClaimed ==
    (seasonOut # NotCalled /\ seasonIn.month \in 1..12)
    => /\ ~seasonOut.panic
       /\ seasonOut.season = IF seasonIn.month > 1
                             THEN Season(seasonIn.year, seasonIn.month - 1)
                             ELSE Season(seasonIn.year - 1, 12)
       /\ seasonOut.season.month \in 1..12

----------------------------------------------------------------------------
(* Specification of the Season text encoding *)

InitSeasonText ==
    /\ build \in Builds
    /\ rawIn \in StringsUpTo(MaxStrLen)
    /\ parseOut = NotCalled
    /\ fmtOut = NotCalled
    /\ SeasonIdle /\ StorageIdle /\ PersistIdle /\ SummaryIdle /\ OthersIdle

CallDeserialize ==
    /\ parseOut = NotCalled
    /\ parseOut' = Season_deserialize(rawIn)
    /\ UNCHANGED <<build, rawIn, fmtOut, seasonVars, storageVars, persistVars, summaryVars, s3Vars, replVars>>

CallSerialize ==
    /\ parseOut # NotCalled
    /\ parseOut.ok
    /\ fmtOut = NotCalled
    /\ fmtOut' = [called |-> TRUE, text |-> Season_serialize(parseOut.season)]
    /\ UNCHANGED <<build, rawIn, parseOut, seasonVars, storageVars, persistVars, summaryVars, s3Vars, replVars>>

NextSeasonText == CallDeserialize \/ CallSerialize

SpecSeasonText == InitSeasonText /\ [][NextSeasonText]_vars

\* the shape YYYY-MM with a month of 01..12
IsCanonical(str) ==
    /\ Len(str) = 7
    /\ str[5] = "-"
    /\ \A i \in {1, 2, 3, 4, 6, 7} : IsDigit(str[i])
    /\ DigitVal(str[6]) * 10 + DigitVal(str[7]) \in 1..12

(* C9: parsing a Season succeeds only for a string of the shape YYYY-MM    *)
(* with a month of 01..12, every other string is an error, and formatting  *)
(* the parsed Season gives the string back.                                *)
SeasonTextAsClaimed ==
    /\ parseOut # NotCalled => (parseOut.ok <=> IsCanonical(rawIn))
    /\ fmtOut # NotCalled => fmtOut.text = rawIn

----------------------------------------------------------------------------
(* Specification of the in-memory Storage: register_clan, get_mut, get *)

Init ==
    /\ build = "release"
    /\ clans = Storage_empty
    /\ lastCall = NoCall
    /\ ret = None
    /\ ref = NoRef
    /\ registered = {}
    /\ SeasonIdle /\ TextIdle /\ PersistIdle /\ SummaryIdle /\ OthersIdle

RegisterStep ==
    \E t \in ClanTagInputs :
        CallRegisterClan(ClanTag(t)) /\ UNCHANGED <<build, seasonVars, textVars, persistVars, summaryVars, s3Vars, replVars>>

GetMutStep ==
    \E t \in ClanTagInputs, s \in SeasonInputs :
        CallGetMut(ClanTag(t), s) /\ UNCHANGED <<build, seasonVars, textVars, persistVars, summaryVars, s3Vars, replVars>>

MutateStep ==
    \E p \in PlayerTagInputs :
        MutateThroughRef(PlayerTag(p)) /\ UNCHANGED <<build, seasonVars, textVars, persistVars, summaryVars, s3Vars, replVars>>

GetStep ==
    \E t \in ClanTagInputs, s \in SeasonInputs :
        CallGet(ClanTag(t), s) /\ UNCHANGED <<build, seasonVars, textVars, persistVars, summaryVars, s3Vars, replVars>>

Next == RegisterStep \/ GetMutStep \/ MutateStep \/ GetStep

Spec == Init /\ [][Next]_vars

(* C1: get_mut returns nothing for a tag register_clan was never called    *)
(* with; for a registered tag without an entry for the season it inserts   *)
(* the default bundle and returns it; and a later get of the key get_mut   *)
(* handed out returns the bundle as last seen or written through that      *)
(* reference.                                                              *)
HasEntry(cl, t, s) == t \in DOMAIN cl /\ s \in DOMAIN cl[t]

GetMutContract ==
    /\ [](lastCall.op = "get_mut" /\ lastCall.tag \notin registered => ret = None)
    /\ [][(/\ lastCall'.op = "get_mut"
           /\ lastCall'.tag \in registered
           /\ ~HasEntry(clans, lastCall'.tag, lastCall'.season))
          => /\ HasEntry(clans', lastCall'.tag, lastCall'.season)
             /\ clans'[lastCall'.tag][lastCall'.season] = ClanStorage_default
             /\ ret' = Some(ClanStorage_default)]_vars
    /\ []((/\ lastCall.op = "get"
           /\ ref.live
           /\ lastCall.tag = ref.tag /\ lastCall.season = ref.season)
          => ret = Some(ref.val))

\* a get that returns a bundle which was created by get_mut and then written
GetAfterMutationSeen ==
    /\ lastCall.op = "get"
    /\ ref.live
    /\ lastCall.tag = ref.tag /\ lastCall.season = ref.season
    /\ ret # None
    /\ ret[1] # ClanStorage_default

(* C2: a tag once registered keeps its season-map and an entry once        *)
(* created stays, with its contents: no register_clan, get_mut or get      *)
(* removes or changes an entry, and a write through a reference changes    *)
(* only the entry the reference is to.                                     *)
EntriesNeverLost ==
    /\ [](registered \subseteq DOMAIN clans)
    /\ [][\A t \in DOMAIN clans :
            /\ t \in DOMAIN clans'
            /\ \A s \in DOMAIN clans[t] :
                  /\ s \in DOMAIN clans'[t]
                  /\ (lastCall'.op # "mutate" \/ <<t, s>> # <<ref.tag, ref.season>>)
                        => clans'[t][s] = clans[t][s]]_vars

\* register_clan was called on a tag that holds a written bundle
RegisteredAgainWithContent ==
    /\ lastCall.op = "register_clan"
    /\ lastCall.tag \in DOMAIN clans
    /\ \E s \in DOMAIN clans[lastCall.tag] :
          clans[lastCall.tag][s] # ClanStorage_default

----------------------------------------------------------------------------
(* Specification of a Storage that is also saved and loaded *)

SaveStep ==
    \E written \in BOOLEAN :
        CallSave(written) /\ UNCHANGED <<build, seasonVars, textVars, summaryVars, s3Vars, replVars>>

LoadStep ==
    \E loaded \in BOOLEAN :
        CallLoad(loaded) /\ UNCHANGED <<build, seasonVars, textVars, summaryVars, s3Vars, replVars>>

NextPersist == RegisterStep \/ GetMutStep \/ MutateStep \/ SaveStep \/ LoadStep

SpecPersist == Init /\ [][NextPersist]_vars

(* C8: every clan key and every member key of a Storage starts with '#'.   *)
AllTagsSigiled ==
    \A t \in DOMAIN clans :
        /\ StartsWithSigil(t)
        /\ \A s \in DOMAIN clans[t] :
              \A p \in DOMAIN clans[t][s].player_names : StartsWithSigil(p)

----------------------------------------------------------------------------
(* Specification of ClanStorage::players_summary *)

InitSummary ==
    /\ build \in Builds
    /\ bundle \in BundleInputs
    /\ summaryOut = NotCalled
    /\ SeasonIdle /\ TextIdle /\ StorageIdle /\ PersistIdle /\ OthersIdle

CallPlayersSummary ==
    /\ summaryOut = NotCalled
    /\ \E order \in Orders(DOMAIN bundle.player_names) :
          summaryOut' = players_summary(bundle, order, build)
    /\ UNCHANGED <<build, bundle, seasonVars, textVars, storageVars, persistVars, s3Vars, replVars>>

NextSummary == CallPlayersSummary

SpecSummary == InitSummary /\ [][NextSummary]_vars

ZeroSummary == [cwl_stars |-> 0, war_stars |-> 0, raid_loot |-> 0, games_score |-> 0]

HasStats(self, p) ==
    \/ p \in DOMAIN self.games
    \/ \E i \in DOMAIN self.cwl.wars : p \in DOMAIN self.cwl.wars[i].members
    \/ \E t \in DOMAIN self.wars : p \in DOMAIN self.wars[t].members
    \/ \E t \in DOMAIN self.raid_weekend : p \in DOMAIN self.raid_weekend[t].members

(* C5: players_summary yields an item for exactly the keys of player_names, *)
(* and a named member without statistics is reported with an all-zero       *)
(* summary.                                                                 *)
SummaryUniverseAsClaimed ==
    summaryOut # NotCalled
    => /\ DOMAIN summaryOut.items = DOMAIN bundle.player_names
       /\ \A p \in DOMAIN summaryOut.items :
             ~HasStats(bundle, p) => summaryOut.items[p] = ZeroSummary

(* C6: the games_score of every named member with a games entry is          *)
(* end_score - start_score when start_score is known and 0 when it is not,  *)
(* and it is a defined value that is not negative.                          *)
GamesScoreAsClaimed ==
    summaryOut # NotCalled
    => \A p \in (DOMAIN bundle.player_names) \cap (DOMAIN bundle.games) :
          /\ p \in DOMAIN summaryOut.items
          /\ summaryOut.items[p].games_score =
                IF bundle.games[p].start_score = None THEN 0
                ELSE bundle.games[p].end_score - bundle.games[p].start_score[1]
          /\ summaryOut.items[p].games_score >= 0

----------------------------------------------------------------------------
(* Specification of an S3Storage used by one caller, one future at a time *)

StorageSideIdle == /\ build = "release" /\ SeasonIdle /\ TextIdle /\ StorageIdle
                /\ PersistIdle /\ SummaryIdle

InitS3 == StorageSideIdle /\ S3Idle /\ ReplIdle

restOfS3 == <<build, seasonVars, textVars, storageVars, persistVars, summaryVars, replVars>>

S3WriteCallStep == \E c \in Contents : S3WriteCall(c) /\ UNCHANGED restOfS3
S3WriteGetStep  == \E fetched \in BOOLEAN : S3WriteGetObject(fetched) /\ UNCHANGED restOfS3
S3WritePutStep  == \E ok \in BOOLEAN, applied \in BOOLEAN :
                       S3WritePutObject(ok, applied) /\ UNCHANGED restOfS3
S3LoadCallStep  == S3LoadCall /\ UNCHANGED restOfS3
S3LoadGetStep   == \E fetched \in BOOLEAN : S3LoadGetObject(fetched) /\ UNCHANGED restOfS3

NextS3 == S3WriteCallStep \/ S3WriteGetStep \/ S3WritePutStep
          \/ S3LoadCallStep \/ S3LoadGetStep

SpecS3 == InitS3 /\ [][NextS3]_vars

(* C10: when write(c) has returned success the object of the bucket is c,   *)
(* whether it was uploaded or the upload was skipped, and a load that then  *)
(* succeeds returns c; the write fails exactly when its upload fails, and   *)
(* a failed fetch of the previous content leads to the upload, not to a     *)
(* failure.                                                                 *)
S3WriteThenLoad ==
    /\ s3WriteRes = "ok" => object = Some(s3Content)
    /\ (s3WriteRes = "ok" /\ s3LoadRes # NotCalled /\ s3LoadRes.ok)
          => s3LoadRes.content = s3Content
    /\ s3WriteRes # "none" => (s3WriteRes = "err" <=> s3Upload = "err")
    /\ (s3Prev = "err" /\ s3WriteRes # "none") => s3Upload \in {"ok", "err"}

\* a write whose upload was skipped returned success, and a load followed
S3SkippedWriteLoaded ==
    /\ s3WriteRes = "ok"
    /\ s3Upload = "skipped"
    /\ s3LoadRes # NotCalled
    /\ s3LoadRes.ok

----------------------------------------------------------------------------
(* Specification of a Replicated backend used by one caller *)

InitRepl == StorageSideIdle /\ S3Idle /\ ReplIdle

restOfRepl == <<build, seasonVars, textVars, storageVars, persistVars, summaryVars, s3Vars>>

ReplWriteCallStep == \E c \in Contents : ReplWriteCall(c) /\ UNCHANGED restOfRepl
ReplWriteResolveStep == \E i \in Backends, ok \in BOOLEAN :
                            ReplWriteResolve(i, ok) /\ UNCHANGED restOfRepl
ReplWriteFinishStep == ReplWriteFinish /\ UNCHANGED restOfRepl
ReplLoadCallStep == ReplLoadCall /\ UNCHANGED restOfRepl
ReplLoadAttemptStep == \E ok \in BOOLEAN : ReplLoadAttempt(ok) /\ UNCHANGED restOfRepl
ReplLoadFinishStep == ReplLoadFinish /\ UNCHANGED restOfRepl

NextRepl == ReplWriteCallStep \/ ReplWriteResolveStep \/ ReplWriteFinishStep
            \/ ReplLoadCallStep \/ ReplLoadAttemptStep \/ ReplLoadFinishStep

SpecRepl == InitRepl /\ [][NextRepl]_vars

(* C3: a Replicated write returns only once every underlying write has      *)
(* resolved, and it returns success exactly when at least one of them       *)
(* succeeded (failure exactly when all of them failed).                     *)
ReplicatedWritePolicy ==
    wResult # "none"
    => /\ \A i \in Backends : wOutcome[i] # "pending"
       /\ wResult = "ok" <=> \E i \in Backends : wOutcome[i] = "ok"
       /\ wResult = "err" <=> \A i \in Backends : wOutcome[i] = "err"

\* a write succeeded although a backend failed
PartialWriteSucceeded ==
    /\ wResult = "ok"
    /\ \E i \in Backends : wOutcome[i] = "err"

(* C4: a Replicated load tries the backends in list order, returns the      *)
(* content of the first one whose load succeeds, tries none after it, and   *)
(* fails exactly when every underlying load failed.                         *)
ReplicatedLoadPolicy ==
    lResult # NotCalled
    => IF lResult.ok
       THEN \E k \in Backends :
               /\ lOutcome[k] = "ok"
               /\ stores[k] = Some(lResult.content)
               /\ \A j \in Backends : j < k => lOutcome[j] = "err"
               /\ \A j \in Backends : j > k => lOutcome[j] = "untried"
       ELSE \A i \in Backends : lOutcome[i] = "err"

\* a load returned the second backend's content after the first one failed,
\* and left a later backend that holds content untried
LoadFellThrough ==
    /\ lResult # NotCalled
    /\ lResult.ok
    /\ lOutcome[1] = "err"
    /\ lOutcome[2] = "ok"
    /\ \E j \in Backends : j > 2 /\ lOutcome[j] = "untried" /\ stores[j] # None

====
